---- MODULE Spec2Model ----
(***************************************************************************)
(* Chest X-ray data preparation: the data module of                        *)
(* src/datamodules/chest_x_ray_dataset.py ("current") and its older        *)
(* near-duplicate src/dataset.py ("legacy"), with the sample sources       *)
(* ChestXRayDataset / ChestXRayDatasetPerLabel they are built from.        *)
(*                                                                         *)
(* A partition is a sequence of positions of the corpus's train            *)
(* collection (a datasets.Dataset keeps an indices mapping over the        *)
(* table it was split from).  An image is a record [label, w, h]; PIL's    *)
(* image.size is the pair (w, h); a tensor shape is <<channels, h, w>>.    *)
(***************************************************************************)
EXTENDS Integers, Sequences, FiniteSets, TLC

\* ------------------------------------------------------------------ bounds
MaxCorpus  == 18   \* largest corpus (records of entire_dataset['train'])
MaxSeed    == 1    \* seeds 0 .. MaxSeed
MaxSmall   == 4    \* largest collection handed directly to a sample source

\* ------------------------------------------------------- program constants
IMAGE_SIDE  == 224     \* self.image_shape = (224, 224)
LEGACY_SIDE == 28      \* self.image_shape = (28, 28)

Seeds  == 0 .. MaxSeed
Labels == {0, 1}

TrainingModes   == {"classification", "diffusion"}
ModeArgs        == TrainingModes \cup {"other"}
ReduceTrainArgs == {"No", "Reduce", "Reduce to merge", "Use Sample Only",
                    "Merge Only", "other"}
FolderModes     == {"Reduce to merge", "Use Sample Only", "Merge Only"}

\* ------------------------------------------------------------- small helpers
Range(s) == {s[i] : i \in DOMAIN s}

Min2(a, b) == IF a < b THEN a ELSE b
Max2(a, b) == IF a < b THEN b ELSE a

\* math.ceil(num/den * n) for the fractions 1/2, 1/5, 1/4, 1/8 the program
\* uses; the float product is exact for every n below 15 (0.2 * 15 is the
\* first one that is not), and the 1/5 split sees half the corpus at most.
CeilFrac(n, num, den) == (n * num + den - 1) \div den

RECURSIVE SumOver(_, _)
SumOver(f, S) ==
    IF S = {} THEN 0
    ELSE LET x == CHOOSE y \in S : TRUE IN f[x] + SumOver(f, S \ {x})

\* rng.permutation(seq) for the generator seeded with s: one fixed
\* rearrangement per seed (a rotation by s places).
Permutation(seq, s) ==
    IF Len(seq) = 0 THEN seq
    ELSE LET k == s % Len(seq)
         IN  SubSeq(seq, k + 1, Len(seq)) \o SubSeq(seq, 1, k)

\* ------------------------------------------------ the stratified splitter
\* sklearn-style _approximate_mode, as datasets.train_test_split uses it:
\* floor of the proportional share per class, the remaining draws going to
\* the classes with the largest remainders; a tie is broken by the seeded
\* generator (lowest class first for an even seed, highest first otherwise).
ApproximateMode(counts, n_draws, s) ==
    LET cls     == DOMAIN counts
        total   == SumOver(counts, cls)
        floored == [c \in cls |-> (counts[c] * n_draws) \div total]
        rem     == [c \in cls |-> (counts[c] * n_draws) % total]
        need    == n_draws - SumOver(floored, cls)
        \* c comes before d in the order in which classes receive a draw
        Before(c, d) == \/ rem[c] > rem[d]
                        \/ /\ rem[c] = rem[d]
                           /\ IF s % 2 = 0 THEN c < d ELSE c > d
        rank    == [c \in cls |-> Cardinality({d \in cls : Before(d, c)})]
    IN  [c \in cls |-> floored[c] + (IF rank[c] < need THEN 1 ELSE 0)]

RECURSIVE ConcatClasses(_, _)
\* train.extend(...) / test.extend(...) over the classes in ascending order
ConcatClasses(f, cls) ==
    IF cls = {} THEN <<>>
    ELSE LET c == CHOOSE x \in cls : \A y \in cls : x <= y
         IN  f[c] \o ConcatClasses(f, cls \ {c})

\* The stratified shuffle split behind train_test_split: members[c] are the
\* records of class c in the parent's order; n_train and n_test are drawn
\* class by class from the seeded permutation of each class, and both
\* halves are permuted again.  ok = FALSE stands for the ValueError raised
\* when a class has fewer than two records or a half has fewer records than
\* there are classes.  The test half's own draw, _approximate_mode(counts -
\* n_i, n_test), is all that is left of each class: n_train + n_test = n.
StratifiedShuffleSplit(members, n_train, n_test, s) ==
    LET cls == DOMAIN members
    IN  IF \/ n_train = 0
           \/ \E c \in cls : Len(members[c]) < 2
           \/ n_train < Cardinality(cls)
           \/ n_test < Cardinality(cls)
        THEN [ok |-> FALSE, train |-> <<>>, test |-> <<>>]
        ELSE LET Draw(n_i) ==
                   LET tr == [c \in cls |-> SubSeq(Permutation(members[c], s), 1, n_i[c])]
                       te == [c \in cls |->
                                SubSeq(Permutation(members[c], s), n_i[c] + 1, Len(members[c]))]
                   IN  [ok    |-> TRUE,
                        train |-> Permutation(ConcatClasses(tr, cls), s),
                        test  |-> Permutation(ConcatClasses(te, cls), s)]
             IN  Draw(ApproximateMode([c \in cls |-> Len(members[c])], n_train, s))

\* the records of each class present in the partition
ClassMembers(parent, coll) ==
    [c \in {coll[parent[i]].label : i \in DOMAIN parent} |->
        SelectSeq(parent, LAMBDA x : coll[x].label = c)]

\* Dataset.train_test_split(test_size=num/den, stratify_by_column='label',
\* seed=s) on the partition `parent` of the collection `coll`:
\* n_test = ceil(test_size * n), n_train = n - n_test.
train_test_split(parent, coll, num, den, s) ==
    StratifiedShuffleSplit(ClassMembers(parent, coll),
                           Len(parent) - CeilFrac(Len(parent), num, den),
                           CeilFrac(Len(parent), num, den), s)

\* ------------------------------------------------------------ transforms
\* image.size of a PIL image: (width, height)
size(img) == <<img.w, img.h>>

\* transforms.Grayscale(num_output_channels=1) then transforms.ToTensor()
ToTensor(img) == <<1, img.h, img.w>>

\* transforms.Resize((h, w)) on a tensor
Resize(t, shape) == <<t[1], shape[1], shape[2]>>

\* transforms.CenterCrop((h, w)) on a tensor: pads a side shorter than the
\* crop up to it, then cuts the centred window
CenterCrop(t, shape) ==
    LET ph == Max2(t[2], shape[1])
        pw == Max2(t[3], shape[2])
    IN  <<t[1], Min2(ph, shape[1]), Min2(pw, shape[2])>>

transform_resize(img, image_shape)  == Resize(ToTensor(img), image_shape)
transform_padding(img, image_shape) == CenterCrop(ToTensor(img), image_shape)
transform_sample(img)               == ToTensor(img)
\* legacy: Grayscale, ToTensor, Resize, Normalize (Normalize keeps the shape)
transform(img, image_shape)         == Resize(ToTensor(img), image_shape)

\* A sample: the tensor shape of its image (channel 0: still the decoded PIL
\* image, no transform configured), its label and the transform applied.
Sample(shape, label, branch) == [shape |-> shape, label |-> label, branch |-> branch]

\* ChestXRayDataset.__getitem__ on the record img; configured = both
\* transform_resize and transform_padding were given
XRayGetItem(img, target_shape, configured) ==
    IF configured
    THEN IF size(img)[1] < target_shape[1] /\ size(img)[2] < target_shape[2]
         THEN Sample(transform_padding(img, target_shape), img.label, "padding")
         ELSE Sample(transform_resize(img, target_shape), img.label, "resize")
    ELSE Sample(<<0, img.h, img.w>>, img.label, "none")

\* legacy ChestXRayDataset.__getitem__ (one transform, always applied)
LegacyGetItem(img, image_shape) ==
    Sample(transform(img, image_shape), img.label, "resize")

\* ------------------------------------------- label-filtered sample source
\* self.indices: the positions (1-based here) whose label is the target
PerLabelIndices_unfiltered(coll, label) == [i \in 1 .. Len(coll) |-> i]

PerLabelIndices(coll, label) ==
    SelectSeq([i \in 1 .. Len(coll) |-> i], LAMBDA i : coll[i].label = label)

\* Python seq[idx]: idx counts from 0, a negative idx counts from the end;
\* 0 stands for IndexError
PyIndex(seq, idx) ==
    IF 0 <= idx /\ idx < Len(seq) THEN seq[idx + 1]
    ELSE IF idx < 0 /\ -Len(seq) <= idx THEN seq[Len(seq) + idx + 1]
    ELSE 0

IndexError == [ok |-> FALSE, pos |-> 0, sample |-> Sample(<<0, 0, 0>>, 0, "none")]
Returned(pos, smp) == [ok |-> TRUE, pos |-> pos, sample |-> smp]

\* ChestXRayDatasetPerLabel.__len__
PerLabelLen(src) == Len(src.indices)

\* ChestXRayDatasetPerLabel.__getitem__(idx): super().__init__(dataset,
\* transform) leaves both transforms of the base class unset
PerLabelGetItem(src, coll, idx) ==
    LET real_idx == PyIndex(src.indices, idx)
    IN  IF real_idx = 0 THEN IndexError
        ELSE Returned(real_idx, XRayGetItem(coll[real_idx], src.target_shape, FALSE))

\* ChestXRayDataset.__len__ / __getitem__(idx) over the whole collection
PlainLen(coll) == Len(coll)
PlainGetItem(src, coll, idx) ==
    LET pos == PyIndex([i \in 1 .. Len(coll) |-> i], idx)
    IN  IF pos = 0 THEN IndexError
        ELSE Returned(pos, XRayGetItem(coll[pos], src.target_shape, src.configured))

\* ------------------------------------------------------- dataset objects
Unset        == [kind |-> "unset",  recs |-> <<>>]  \* attribute not assigned
XRay(recs)   == [kind |-> "xray",   recs |-> recs]  \* ChestXRayDataset, current
Legacy(recs) == [kind |-> "legacy", recs |-> recs]  \* ChestXRayDataset, legacy
Folder       == [kind |-> "folder", recs |-> <<>>]  \* ImageFolder
Concat(recs) == [kind |-> "concat", recs |-> recs]  \* ConcatDataset([XRay, Folder])

NoFolder == [exists |-> FALSE, imgs |-> <<>>]

DatasetLen(d, folder) ==
    CASE d.kind = "folder" -> Len(folder.imgs)
      [] d.kind = "concat" -> Len(d.recs) + Len(folder.imgs)
      [] OTHER             -> Len(d.recs)

\* d[i] for 1 <= i <= DatasetLen(d, folder)
DatasetItem(d, coll, folder, i) ==
    LET shape == <<IMAGE_SIDE, IMAGE_SIDE>>
        old   == <<LEGACY_SIDE, LEGACY_SIDE>>
    IN  CASE d.kind = "xray"   -> XRayGetItem(coll[d.recs[i]], shape, TRUE)
          [] d.kind = "legacy" -> LegacyGetItem(coll[d.recs[i]], old)
          [] d.kind = "folder" ->
                Sample(transform_sample(folder.imgs[i]), folder.imgs[i].label, "sample")
          [] d.kind = "concat" ->
                IF i <= Len(d.recs)
                THEN XRayGetItem(coll[d.recs[i]], shape, TRUE)
                ELSE LET img == folder.imgs[i - Len(d.recs)]
                     IN  Sample(transform_sample(img), img.label, "sample")

\* ------------------------------------------------------------------ state
VARIABLES
    variant,            \* "current": datamodules/chest_x_ray_dataset.py, "legacy": dataset.py
    training_mode,      \* self.training_mode
    reduce_train,       \* self.reduce_train
    seed,               \* self.seed
    corpus,             \* load_dataset(self.data_dir)['train']: sequence of images
    sample_folder,      \* the directory 'classification_sample'
    np_random,          \* process-global numpy generator state
    train_dataset,      \* self.train_dataset
    val_dataset,        \* self.val_dataset
    test_dataset,       \* self.test_dataset
    diffusion_dataset,  \* self.diffusion_dataset
    status,             \* how the last setup() call ended: "none", "ok", "failed"
    assigned,           \* the attributes the last setup() call assigned
    train_val_split,    \* the local train_val_split of the last setup() call
    history,            \* the four partitions after the last two setup() calls that returned
    last_set,           \* the last mode a set_training_mode call accepted
    loaders,            \* the last two DataLoaders handed out, the older first
    sample,             \* the last sample a DataLoader yielded
    source,             \* a sample source built directly on the collection
    result              \* what the last source[idx] gave

vars == <<variant, training_mode, reduce_train, seed, corpus, sample_folder,
          np_random, train_dataset, val_dataset, test_dataset,
          diffusion_dataset, status, assigned, train_val_split,
          history, last_set, loaders, sample, source, result>>

env    == <<variant, reduce_train, seed, corpus, sample_folder>>
fields == <<train_dataset, val_dataset, test_dataset, diffusion_dataset>>
ghosts == <<status, assigned, train_val_split, history>>

\* -------------------------------------------------------------- environment
Img(label, w, h) == [label |-> label, w |-> w, h |-> h]

\* (w, h) of the corpus images, in rotation: smaller than 224 x 224 on both
\* axes, equal to it, smaller on one axis only, larger on both
Sizes == << <<IMAGE_SIDE - 1, IMAGE_SIDE - 1>>, <<IMAGE_SIDE, IMAGE_SIDE>>,
            <<100, 300>>, <<300, 100>>, <<512, 512>> >>

SizeAt(i) == Sizes[((i - 1) % Len(Sizes)) + 1]

\* n records over two labels in alternation
Balanced(n) == [i \in 1 .. n |-> Img((i - 1) % 2, SizeAt(i)[1], SizeAt(i)[2])]
\* n records of label 0 but the last, the only one of label 1
Singleton(n) == [i \in 1 .. n |->
                    Img(IF i = n THEN 1 ELSE 0, SizeAt(i)[1], SizeAt(i)[2])]

Corpora == {Balanced(MaxCorpus - 2), Balanced(MaxCorpus), Singleton(MaxCorpus)}

\* 'classification_sample': absent, or one image per label, either of the
\* target shape or as a generator wrote them (64 x 64)
Folders == {NoFolder,
            [exists |-> TRUE, imgs |-> <<Img(0, IMAGE_SIDE, IMAGE_SIDE),
                                         Img(1, IMAGE_SIDE, IMAGE_SIDE)>>],
            [exists |-> TRUE, imgs |-> <<Img(0, 64, 64), Img(1, 64, 64)>>]}

NoSplit  == [ok |-> FALSE, train |-> <<>>, test |-> <<>>]
NoSample == [yielded |-> FALSE, shape |-> <<0, 0, 0>>]
NoSource == [kind |-> "none", label |-> 0, indices |-> <<>>,
             target_shape |-> <<0, 0>>, configured |-> FALSE]
NoResult == [idx |-> 0, ok |-> FALSE, pos |-> 0,
             sample |-> Sample(<<0, 0, 0>>, 0, "none"), asked |-> FALSE]

\* ----------------------------------------------------------------- __init__
\* ChestXRayDataModule.__init__(..., mode, ..., seed, reduce_train); the legacy
\* constructor takes neither seed nor reduce_train and reads no folder.  The
\* folder and the global generator vary only where setup() reads them.
Init ==
    /\ variant \in {"current", "legacy"}
    /\ training_mode \in ModeArgs
    /\ corpus \in Corpora
    /\ IF variant = "current"
       THEN /\ reduce_train \in ReduceTrainArgs
            /\ seed \in Seeds
            /\ sample_folder \in (IF reduce_train \in FolderModes
                                  THEN Folders ELSE {NoFolder})
            /\ np_random = 0
       ELSE /\ reduce_train = "No"
            /\ seed = 0
            /\ sample_folder = NoFolder
            /\ np_random \in Seeds
    /\ train_dataset = Unset
    /\ val_dataset = Unset
    /\ test_dataset = Unset
    /\ diffusion_dataset = Unset
    /\ status = "none"
    /\ assigned = {}
    /\ train_val_split = NoSplit
    /\ history = <<>>
    /\ last_set = "none"
    /\ loaders = <<>>
    /\ sample = NoSample
    /\ source = NoSource
    /\ result = NoResult

\* -------------------------------------------------------------------- setup
Outcome(st, tr, va, te, di, asg, tvs) ==
    [status |-> st, train_dataset |-> tr, val_dataset |-> va, test_dataset |-> te,
     diffusion_dataset |-> di, assigned |-> asg, train_val_split |-> tvs]

All == [i \in 1 .. Len(corpus) |-> i]      \* entire_dataset['train']
AllFour == {"train_dataset", "val_dataset", "test_dataset", "diffusion_dataset"}

\* ImageFolder(root='classification_sample', ...) raises FileNotFoundError
\* when the directory is absent or holds no image
FolderFails == ~sample_folder.exists \/ Len(sample_folder.imgs) = 0

\* val_dataset = train_val_split['train']
val_branch(split) == split.train

\* train_dataset.train_test_split(test_size=0.25, ...)['test']
reduced_train_other_branch(split) == split.train

reduced_train(split) == split.test

\* ChestXRayDataModule.setup of the current module, run to its return or to
\* the first exception; the attributes assigned before an exception stay.
\* s1, s2, s3: diffusion_classification_split, classification_train_test_split
\* and train_val_split (NoSplit where the call before it raised).
setup_outcome(s1, s2, s3) ==
    LET raised(tr, asg) ==
            Outcome("failed", tr, val_dataset, test_dataset, diffusion_dataset, asg, s3)
        done(tr) ==
            Outcome("ok", tr, XRay(val_branch(s3)), XRay(s2.test), XRay(s1.train),
                    AllFour, s3)
        \* the if / elif / elif / else that follows the "Reduce" branch
        merge(r8, tr, asg) ==
            IF ~r8.ok THEN raised(tr, asg)
            ELSE IF FolderFails
                 THEN raised(XRay(r8.test), asg \cup {"train_dataset"})
                 ELSE done(Concat(r8.test))
        dispatch(local, tr, asg) ==
            IF reduce_train = "Reduce to merge"
            THEN merge(train_test_split(local, corpus, 1, 8, seed), tr, asg)
            ELSE IF reduce_train = "Use Sample Only"
            THEN IF FolderFails THEN raised(tr, asg) ELSE done(Folder)
            ELSE IF reduce_train = "Merge Only"
            THEN IF FolderFails
                 THEN raised(XRay(local), asg \cup {"train_dataset"})
                 ELSE done(Concat(local))
            ELSE done(XRay(local))
        reduce(r4) ==
            IF ~r4.ok THEN raised(train_dataset, {})
            ELSE dispatch(reduced_train(r4), XRay(reduced_train(r4)), {"train_dataset"})
    IN  IF ~s1.ok
        THEN Outcome("failed", train_dataset, val_dataset, test_dataset,
                     diffusion_dataset, {}, NoSplit)
        ELSE IF ~s2.ok
        THEN Outcome("failed", train_dataset, val_dataset, test_dataset,
                     diffusion_dataset, {}, NoSplit)
        ELSE IF ~s3.ok THEN raised(train_dataset, {})
        ELSE IF reduce_train = "Reduce"
        THEN reduce(train_test_split(s3.train, corpus, 1, 4, seed))
        ELSE dispatch(s3.train, train_dataset, {})

\* one draw from the process-global numpy generator steps its state
Step(g) == (g + 1) % (MaxSeed + 1)

\* legacy ChestXRayDataModule.setup: no seed is passed, so each
\* train_test_split seeds its generator from the process-global numpy state
\* and steps that state; all four attributes are assigned after the last
\* split.
legacy_setup_outcome(s1, s2, s3) ==
        IF ~s1.ok \/ ~s2.ok \/ ~s3.ok
        THEN Outcome("failed", train_dataset, val_dataset, test_dataset,
                     diffusion_dataset, {}, NoSplit)
        ELSE Outcome("ok", Legacy(s3.train), Legacy(s3.test), Legacy(s2.test),
                     Legacy(s1.train), AllFour, s3)

\* the second and third of the cascading splits, not made once the split
\* before has raised
split_pool(s1, g)      == IF s1.ok THEN train_test_split(s1.test, corpus, 1, 5, g) ELSE NoSplit
split_train_val(s2, g) == IF s2.ok THEN train_test_split(s2.train, corpus, 1, 4, g) ELSE NoSplit

Partitions(o) == [train |-> o.train_dataset, val |-> o.val_dataset,
                  test |-> o.test_dataset, diffusion |-> o.diffusion_dataset]

\* the two latest entries of a sequence
Recent(seq) == IF Len(seq) > 2 THEN Tail(seq) ELSE seq

Commit(o) ==
    /\ train_dataset' = o.train_dataset
    /\ val_dataset' = o.val_dataset
    /\ test_dataset' = o.test_dataset
    /\ diffusion_dataset' = o.diffusion_dataset
    /\ status' = o.status
    /\ assigned' = o.assigned
    /\ train_val_split' = o.train_val_split
    /\ history' = IF o.status = "ok" THEN Recent(Append(history, Partitions(o)))
                   ELSE history

setup ==
    /\ variant = "current"
    /\ \E s1 \in {train_test_split(All, corpus, 1, 2, seed)} :
       \E s2 \in {split_pool(s1, seed)} :
       \E s3 \in {split_train_val(s2, seed)} :
       \E o \in {setup_outcome(s1, s2, s3)} : Commit(o)
    /\ UNCHANGED <<env, np_random, training_mode, last_set, loaders, sample,
                   source, result>>

legacy_setup ==
    /\ variant = "legacy"
    /\ \E s1 \in {train_test_split(All, corpus, 1, 2, np_random)} :
       \E s2 \in {split_pool(s1, Step(np_random))} :
       \E s3 \in {split_train_val(s2, Step(Step(np_random)))} :
       \E o \in {legacy_setup_outcome(s1, s2, s3)} : Commit(o)
    /\ np_random' \in Seeds       \* whatever else drew from it meanwhile
    /\ UNCHANGED <<env, training_mode, last_set, loaders, sample, source, result>>

\* ------------------------------------------------------------ training mode
set_training_mode(mode) ==
    /\ IF mode \in {"classification", "diffusion"}
       THEN training_mode' = mode /\ last_set' = mode
       ELSE UNCHANGED <<training_mode, last_set>>
    /\ UNCHANGED <<env, np_random, fields, ghosts, loaders, sample, source, result>>

\* --------------------------------------------------------------- accessors
\* the attribute train_dataloader() reads
train_source_ignoring_mode(mode) == "train_dataset"

train_source(mode) ==
    IF mode = "classification" THEN "train_dataset" ELSE "diffusion_dataset"

Attr(name) ==
    CASE name = "train_dataset"     -> train_dataset
      [] name = "val_dataset"       -> val_dataset
      [] name = "test_dataset"      -> test_dataset
      [] name = "diffusion_dataset" -> diffusion_dataset

\* DataLoader(self.<attr>, ...): an attribute setup() has not assigned yet
\* raises AttributeError and no loader is returned
Obtain(acc, attr) ==
    /\ Attr(attr).kind # "unset"
    /\ loaders' = Recent(Append(loaders, [acc |-> acc, attr |-> attr,
                                          ds |-> Attr(attr)]))
    /\ UNCHANGED <<env, np_random, training_mode, last_set, fields, ghosts,
                   sample, source, result>>

train_dataloader == Obtain("train", train_source(training_mode))
val_dataloader   == Obtain("val", "val_dataset")
test_dataloader  == Obtain("test", "test_dataset")

\* one sample of a batch: the loader's dataset at a position its sampler draws
next_sample ==
    \E l \in DOMAIN loaders :
      \E shape \in {DatasetItem(loaders[l].ds, corpus, sample_folder, i).shape :
                       i \in 1 .. DatasetLen(loaders[l].ds, sample_folder)} :
        /\ sample' = [yielded |-> TRUE, shape |-> shape]
        /\ UNCHANGED <<env, np_random, training_mode, last_set, fields, ghosts,
                       loaders, source, result>>

Next ==
    \/ setup
    \/ legacy_setup
    \/ \E mode \in ModeArgs : set_training_mode(mode)
    \/ train_dataloader
    \/ val_dataloader
    \/ test_dataloader
    \/ next_sample

Spec == Init /\ [][Next]_vars

\* ------------------------------------------- sample sources used directly
\* get_dataloader_from_hf / get_dataloaders_by_label and setup() build the
\* sources; here they are built on a small collection and indexed.
RECURSIVE Collections(_)
Collections(n) ==
    IF n = 0 THEN {<<>>}
    ELSE LET shorter == Collections(n - 1)
         IN  shorter \cup
             {Append(c, Img(l, SizeAt(n)[1], SizeAt(n)[2])) :
                 c \in {d \in shorter : Len(d) = n - 1}, l \in Labels}

\* (height, width) pairs a source is built with
TargetShapes == {<<IMAGE_SIDE, IMAGE_SIDE>>, <<IMAGE_SIDE, 2 * IMAGE_SIDE>>}

InitSource ==
    /\ variant = "current"
    /\ training_mode = "classification"
    /\ reduce_train = "No"
    /\ seed = 0
    /\ corpus \in Collections(MaxSmall)
    /\ sample_folder = NoFolder
    /\ np_random = 0
    /\ train_dataset = Unset
    /\ val_dataset = Unset
    /\ test_dataset = Unset
    /\ diffusion_dataset = Unset
    /\ status = "none"
    /\ assigned = {}
    /\ train_val_split = NoSplit
    /\ history = <<>>
    /\ last_set = "none"
    /\ loaders = <<>>
    /\ sample = NoSample
    /\ source = NoSource
    /\ result = NoResult

lifecycle == <<training_mode, last_set, np_random, fields, ghosts, loaders, sample>>

\* ChestXRayDataset(dataset, target_shape, transform_resize, transform_padding)
\* with both transforms, or ChestXRayDataset(dataset, transform) with none
new_dataset(target_shape, configured) ==
    /\ source' = [kind |-> "plain", label |-> 0, indices |-> <<>>,
                  target_shape |-> target_shape, configured |-> configured]
    /\ result' = NoResult
    /\ UNCHANGED <<env, lifecycle>>

\* ChestXRayDatasetPerLabel(dataset, label, transform)
new_per_label(label) ==
    /\ source' = [kind |-> "per_label", label |-> label,
                  indices |-> PerLabelIndices(corpus, label),
                  target_shape |-> <<0, 0>>, configured |-> FALSE]
    /\ result' = NoResult
    /\ UNCHANGED <<env, lifecycle>>

\* source[idx]
getitem(idx) ==
    /\ source.kind # "none"
    /\ LET got == IF source.kind = "per_label"
                  THEN PerLabelGetItem(source, corpus, idx)
                  ELSE PlainGetItem(source, corpus, idx)
       IN  result' = [idx |-> idx, ok |-> got.ok, pos |-> got.pos,
                      sample |-> got.sample, asked |-> TRUE]
    /\ UNCHANGED <<env, lifecycle, source>>

NextSource ==
    \/ \E shape \in TargetShapes, configured \in BOOLEAN : new_dataset(shape, configured)
    \/ \E label \in Labels : new_per_label(label)
    \/ \E idx \in -(MaxSmall + 1) .. (MaxSmall + 1) : getitem(idx)

SpecSource == InitSource /\ [][NextSource]_vars

\* ------------------------------------------------------------------ claims
Recs(d) == Range(d.recs)

\* the Target Shape of the samples the module's batch sources yield
TargetTensor ==
    IF variant = "current" THEN <<1, IMAGE_SIDE, IMAGE_SIDE>>
    ELSE <<1, LEGACY_SIDE, LEGACY_SIDE>>

\* C1: after a setup() that returned, train, val and test share no corpus
\* record pairwise, for every reduce_train value.
C1_PairwiseDisjoint ==
    status = "ok" =>
        /\ Recs(train_dataset) \cap Recs(val_dataset) = {}
        /\ Recs(train_dataset) \cap Recs(test_dataset) = {}
        /\ Recs(val_dataset) \cap Recs(test_dataset) = {}

\* C2: after setup() with reduce_train = "No", diffusion shares no record with
\* train, val or test, and the four sizes add up to the size of the corpus.
C2_CoverOnce ==
    (status = "ok" /\ reduce_train = "No") =>
        /\ Recs(diffusion_dataset) \cap
             (Recs(train_dataset) \cup Recs(val_dataset) \cup Recs(test_dataset)) = {}
        /\ Len(diffusion_dataset.recs) + Len(train_dataset.recs)
             + Len(val_dataset.recs) + Len(test_dataset.recs) = Len(corpus)

\* C3: a setup() call that failed assigned none of the four attributes, and
\* one that returned assigned all four.
C3_NoPartialSuccess ==
    /\ status = "failed" => assigned = {}
    /\ status = "ok" => assigned = AllFour

\* C4: with the corpus and the seed fixed, every setup() that returns yields
\* the same four partitions, position for position.
C4_Deterministic ==
    \A i, j \in DOMAIN history : history[i] = history[j]

\* C5: every sample a training, validation or test batch source yields has an
\* image tensor of exactly the Target Shape, in every reduce_train mode.
C5_TargetShape ==
    sample.yielded => sample.shape = TargetTensor

\* C6: a source with both transforms pads exactly when the image's height is
\* below the target height and its width below the target width, resizes in
\* every other case, and yields the target shape either way.
C6_BranchChoice ==
    (result.asked /\ result.ok /\ source.kind = "plain" /\ source.configured) =>
        LET img    == corpus[result.pos]
            target == source.target_shape
            small  == img.h < target[1] /\ img.w < target[2]
        IN  /\ result.sample.branch = (IF small THEN "padding" ELSE "resize")
            /\ result.sample.shape = <<1, target[1], target[2]>>

\* C7: with reduce_train = "Reduce", train_dataset after setup() wraps
\* records of the original train partition only, each once, and its size is
\* a quarter of that partition's size up to rounding.
C7_ReduceQuarter ==
    (variant = "current" /\ reduce_train = "Reduce" /\ status = "ok") =>
        LET orig == train_val_split.train
            kept == train_dataset.recs
        IN  /\ train_dataset.kind = "xray"
            /\ Range(kept) \subseteq Range(orig)
            /\ Cardinality(Range(kept)) = Len(kept)
            /\ 4 * Len(kept) - Len(orig) < 4
            /\ Len(orig) - 4 * Len(kept) < 4

C7_Witness ==
    /\ variant = "current" /\ reduce_train = "Reduce" /\ status = "ok"
    /\ Len(train_dataset.recs) > 0
    /\ Len(train_dataset.recs) < Len(train_val_split.train)

\* C8: a loader the training accessor returns is backed by the diffusion
\* partition when the last accepted set_training_mode was 'diffusion' and by
\* train_dataset when it was 'classification'; validation and test loaders
\* are backed by val_dataset and test_dataset; no step changes the loader
\* handed out before.
C8_AccessorAtCallTime ==
    [][ \/ loaders' = loaders
        \/ /\ Len(loaders') >= 1
           /\ IF Len(loaders) = 2 THEN loaders'[1] = loaders[2]
              ELSE SubSeq(loaders', 1, Len(loaders)) = loaders
           /\ LET l == loaders'[Len(loaders')]
              IN  /\ (l.acc = "train" /\ last_set = "diffusion") =>
                        (l.attr = "diffusion_dataset" /\ l.ds = diffusion_dataset)
                  /\ (l.acc = "train" /\ last_set = "classification") =>
                        (l.attr = "train_dataset" /\ l.ds = train_dataset)
                  /\ l.acc = "val" => (l.attr = "val_dataset" /\ l.ds = val_dataset)
                  /\ l.acc = "test" => (l.attr = "test_dataset" /\ l.ds = test_dataset)
      ]_vars

C8_Witness ==
    /\ last_set = "diffusion"
    /\ Len(loaders) = 2
    /\ loaders[1].acc = "train" /\ loaders[1].attr = "train_dataset"
    /\ loaders[2].acc = "train" /\ loaders[2].attr = "diffusion_dataset"
    /\ loaders[1].ds # loaders[2].ds

CountLabel(coll, label) == Cardinality({i \in 1 .. Len(coll) : coll[i].label = label})

\* C9 as stated: the length is the number of label-L records, source[i] has
\* label L for 0 <= i < length and fails for every other i, negative ones
\* included.
C9_AsStated ==
    source.kind = "per_label" =>
        /\ PerLabelLen(source) = CountLabel(corpus, source.label)
        /\ result.asked =>
              IF 0 <= result.idx /\ result.idx < PerLabelLen(source)
              THEN result.ok /\ result.sample.label = source.label
              ELSE ~result.ok

\* C9: the length is the number of label-L records; source[i] has label L
\* for -length <= i < length, a negative i counting from the end of the
\* filtered positions; source[i] fails for i >= length and for i < -length.
C9_PerLabel ==
    source.kind = "per_label" =>
        LET n == PerLabelLen(source)
        IN  /\ n = CountLabel(corpus, source.label)
            /\ result.asked =>
                  IF -n <= result.idx /\ result.idx < n
                  THEN /\ result.ok
                       /\ result.sample.label = source.label
                       /\ corpus[result.pos].label = source.label
                       /\ result.idx < 0 => result.pos = source.indices[n + result.idx + 1]
                       /\ result.idx >= 0 => result.pos = source.indices[result.idx + 1]
                  ELSE ~result.ok

C9_Witness ==
    /\ source.kind = "per_label"
    /\ PerLabelLen(source) >= 2
    /\ PerLabelLen(source) < Len(corpus)
    /\ result.asked /\ result.ok
    /\ result.idx = -1
    /\ result.pos = source.indices[PerLabelLen(source)]

\* C10: Training Mode is always 'classification' or 'diffusion', so that
\* the training accessor reads the diffusion partition in mode 'diffusion'
\* only.
C10_TwoValued ==
    /\ training_mode \in {"classification", "diffusion"}
    /\ train_source(training_mode) = "diffusion_dataset" => training_mode = "diffusion"

\* ------------------------------------------------------- supporting facts
\* The legacy module takes val from the 'test' branch: there the partitions
\* of C1 and C2 are disjoint and cover the corpus once.
LegacyDisjointCover ==
    variant = "legacy" => (C1_PairwiseDisjoint /\ C2_CoverOnce)

\* In both modules diffusion shares no record with train, val or test.
DiffusionApart ==
    status = "ok" =>
        Recs(diffusion_dataset) \cap
          (Recs(train_dataset) \cup Recs(val_dataset) \cup Recs(test_dataset)) = {}

\* The current module passes self.seed to every split: its runs agree.
CurrentDeterministic ==
    variant = "current" => C4_Deterministic

\* Only in a mode that reads the sample folder can a sample miss the Target
\* Shape.
OnlyFolderSamplesOffShape ==
    (sample.yielded /\ sample.shape # TargetTensor) => reduce_train \in FolderModes

\* With a square target, as setup() always passes, the branch of C6 is right.
SquareBranchChoice ==
    source.target_shape[1] = source.target_shape[2] => C6_BranchChoice

\* A set_training_mode call never leaves the two modes once one was accepted.
AcceptedModeKept ==
    last_set # "none" => training_mode = last_set

====
